---------------------------- MODULE Spec2Model ----------------------------
(***************************************************************************)
(* A model of src/appium.js: the IPC handlers of the main process.  Every  *)
(* handler runs atomically up to its next await; the settling of an        *)
(* awaited promise (resolved or rejected) is a separate step, so handlers  *)
(* interleave exactly at their await points.                               *)
(***************************************************************************)
EXTENDS Naturals, Sequences, FiniteSets

(* ------------------------------ bounds -------------------------------- *)

\* the requests of the session windows in one run: appium-create-new-session,
\* appium-client-command-request and the closing of a window
MaxRequests == 3
\* the start-server and stop-server requests in one run
MaxServerRequests == 3
\* the records the embedded server logs in one run
MaxLogs == 3

\* the session windows (event.sender.id)
Req == {1}
\* the method names of a command request other than quit
Methods == {"source", "click"}
Outcomes == {"ok", "err"}

VARIABLES
  sessionDrivers,   \* the registry: a set of <<sender id, driver>> pairs
  drivers,          \* the adapters built by wd.promiseChainRemote, by id
  handlers,         \* the handler activations, in order of their start,
                    \* each with the calls it made and the events it sent
  closed,           \* the windows whose 'closed' event has fired
  server,           \* var server: 0 for null, else the instance it holds
  running,          \* the server instances that are up
  serverArgs,       \* var serverArgs: 0 for null, else the start request it came with
  logWatcher,       \* var logWatcher: 0 for null, else the interval it holds
  timers,           \* the intervals that are set and not cleared
  batchedLogs,      \* var batchedLogs
  logged,           \* the records logged so far, in order
  delivered,        \* the appium-log-line batches sent so far, in order
  serverHandlers    \* the start-server and stop-server activations

sessionVars == <<sessionDrivers, drivers, handlers, closed>>
serverVars == <<server, running, serverArgs, logWatcher, timers, batchedLogs,
                logged, delivered, serverHandlers>>
vars == <<sessionDrivers, drivers, handlers, closed, server, running, serverArgs,
          logWatcher, timers, batchedLogs, logged, delivered, serverHandlers>>

(* --------------------------- the registry ----------------------------- *)

\* sessionDrivers[id], 0 for undefined
Lookup(reg, r) ==
  IF \E e \in reg : e[1] = r THEN (CHOOSE e \in reg : e[1] = r)[2] ELSE 0

\* a registry that keeps the entries a window already has
RegPutKeep(reg, r, a) == reg \cup {<<r, a>>}

\* sessionDrivers[id] = a
RegPut(reg, r, a) == {e \in reg : e[1] # r} \cup {<<r, a>>}

\* delete sessionDrivers[id]
RegDelete(reg, r) == {e \in reg : e[1] # r}

(* --------------------------- bookkeeping ------------------------------ *)

\* a handler activation: kind is create, kill (an activation of killSession)
\* or cmd; r the window; a the driver it holds; origin the caller of
\* killSession; init, for a killSession the window asked for (by closing or
\* by the quit command), the state the driver's init was in at that moment;
\* old the driver a create found registered; calls and sent the driver
\* methods invoked and the events sent by the activation, in order
Handler(kind, r, a, pc, origin, method, old, calls, sent) ==
  [kind |-> kind, r |-> r, a |-> a, pc |-> pc, origin |-> origin, init |-> "",
   method |-> method, old |-> old, calls |-> calls, sent |-> sent]

Count(kind, origins) ==
  Cardinality({i \in DOMAIN handlers :
     handlers[i].kind = kind /\ handlers[i].origin \in origins})

\* sender.send(ev), issued by handler activation i
Send(hs, i, ev) == [hs EXCEPT ![i].sent = Append(@, ev)]

\* driver.quit() is invoked on a
QuitCalled(ds, a) == [ds EXCEPT ![a].quitCalls = @ + 1]

\* the requests received so far
Requests ==
  Len(drivers) + Cardinality(closed) + Count("kill", {"exec"}) + Count("cmd", {""})

(* ---------------------------- killSession ----------------------------- *)

\* killSession(sender) up to its await: the state is [hs, ds], the handler
\* activations and the drivers; with an entry for r the driver's quit is
\* invoked and the activation waits for it, without one nothing happens
killSession(st, reg, r, origin) ==
  IF Lookup(reg, r) # 0
    THEN [hs |-> Append(st.hs, Handler("kill", r, Lookup(reg, r), "awaitQuit",
                                        origin, "", 0, <<>>, <<>>)),
          ds |-> QuitCalled(st.ds, Lookup(reg, r))]
    ELSE st

State == [hs |-> handlers, ds |-> drivers]

\* killSession called for the window itself: as killSession, and the
\* activation notes the state the init of its driver is in
killSessionByWindow(r, origin) ==
  LET k == killSession(State, sessionDrivers, r, origin)
      a == Lookup(sessionDrivers, r)
  IN IF a # 0 THEN [k EXCEPT !.hs[Len(k.hs)].init = drivers[a].init] ELSE k

Init ==
  /\ sessionDrivers = {}
  /\ drivers = <<>>
  /\ handlers = <<>>
  /\ closed = {}
  /\ server = 0
  /\ running = {}
  /\ serverArgs = 0
  /\ logWatcher = 0
  /\ timers = {}
  /\ batchedLogs = <<>>
  /\ logged = <<>>
  /\ delivered = <<>>
  /\ serverHandlers = <<>>

\* ipcMain.on('appium-create-new-session'): kill the active session of the
\* window (not awaited), build and register the driver, start its init and
\* send appium-new-session-successful
CreateSession(r) ==
  /\ r \notin closed
  /\ Requests < MaxRequests
  /\ LET k   == killSession(State, sessionDrivers, r, "replace")
         a   == Len(drivers) + 1
     IN /\ sessionDrivers' = RegPut(sessionDrivers, r, a)
        /\ drivers' = Append(k.ds, [owner |-> r, init |-> "pending", quitCalls |-> 0])
        /\ handlers' = Append(k.hs, Handler("create", r, a, "awaitInit", "", "",
                                  Lookup(sessionDrivers, r), <<>>,
                                  <<"appium-new-session-successful">>))
  /\ UNCHANGED <<closed, serverVars>>

\* the init promise of a create handler settles: on success
\* appium-new-session-ready is sent; on failure killSession is called (not
\* awaited) and appium-new-session-failed and appium-session-done are sent
InitSettles(i, out) ==
  /\ handlers[i].kind = "create"
  /\ handlers[i].pc = "awaitInit"
  /\ LET r  == handlers[i].r
         a  == handlers[i].a
         st == [hs |-> [handlers EXCEPT ![i].pc = IF out = "ok" THEN "done" ELSE "failed"],
                ds |-> [drivers EXCEPT ![a].init = out]]
         k  == killSession(st, sessionDrivers, r, "initfail")
     IN IF out = "ok"
          THEN /\ handlers' = Send(st.hs, i, "appium-new-session-ready")
               /\ drivers' = st.ds
          ELSE /\ handlers' = Send(Send(k.hs, i, "appium-new-session-failed"),
                                   i, "appium-session-done")
               /\ drivers' = k.ds
  /\ UNCHANGED <<sessionDrivers, closed, serverVars>>

\* the quit awaited by killSession settles.  Resolved: the entry of the
\* window, whatever it holds by now, is deleted and appium-session-done is
\* sent.  Rejected: killSession
\* throws; only the command listener (origin exec) catches it and sends
\* appium-client-command-response-error, the other callers do not await it
QuitSettles(i, out) ==
  /\ handlers[i].kind = "kill"
  /\ handlers[i].pc = "awaitQuit"
  /\ LET r == handlers[i].r
     IN IF out = "ok"
          THEN /\ sessionDrivers' = RegDelete(sessionDrivers, r)
               /\ handlers' = Send([handlers EXCEPT ![i].pc = "done"],
                                   i, "appium-session-done")
          ELSE /\ UNCHANGED sessionDrivers
               /\ IF handlers[i].origin = "exec"
                    THEN handlers' = Send([handlers EXCEPT ![i].pc = "caught"],
                                          i, "appium-client-command-response-error")
                    ELSE handlers' = [handlers EXCEPT ![i].pc = "rejected"]
  /\ UNCHANGED <<drivers, closed, serverVars>>

\* sessionWin.on('closed'): killSession of the window, not awaited; a closed
\* window sends no further request
WindowClosed(r) ==
  /\ r \notin closed
  /\ Requests < MaxRequests
  /\ closed' = closed \cup {r}
  /\ LET k == killSessionByWindow(r, "closed")
     IN /\ handlers' = k.hs
        /\ drivers' = k.ds
  /\ UNCHANGED <<sessionDrivers, serverVars>>

\* ipcMain.on('appium-client-command-request') with methodName quit:
\* await killSession(evt.sender) inside the try
ExecQuit(r) ==
  /\ r \notin closed
  /\ Requests < MaxRequests
  /\ LET k == killSessionByWindow(r, "exec")
     IN /\ handlers' = IF Lookup(sessionDrivers, r) # 0 THEN k.hs
                        ELSE Append(handlers, Handler("kill", r, 0, "done", "exec", "", 0, <<>>, <<>>))
        /\ drivers' = k.ds
  /\ UNCHANGED <<sessionDrivers, closed, serverVars>>

\* a plan that invokes the named method also when it is source
CallPlanAlwaysNamed(m) == <<m, "source", "takeScreenshot">>

\* the calls a command makes on its driver, in order: the named method
\* unless it is source, then source and takeScreenshot
CallPlan(m) ==
  IF m # "source" THEN <<m, "source", "takeScreenshot">>
                  ELSE <<"source", "takeScreenshot">>

\* a listener that goes on to invoke the method although no driver was found
ExecCmdUnchecked(r, m) ==
  /\ r \notin closed
  /\ Requests < MaxRequests
  /\ handlers' = Append(handlers, Handler("cmd", r, Lookup(sessionDrivers, r), "awaitCall",
                                          "", m, 0, <<CallPlan(m)[1]>>, <<>>))
  /\ UNCHANGED <<sessionDrivers, drivers, closed, serverVars>>

\* ipcMain.on('appium-client-command-request') with another method: the
\* driver is looked up once; on undefined the first call throws a TypeError,
\* which the catch turns into appium-client-command-response-error
ExecCmd(r, m) ==
  /\ r \notin closed
  /\ Requests < MaxRequests
  /\ LET d == Lookup(sessionDrivers, r)
     IN IF d = 0
          THEN handlers' = Append(handlers, Handler("cmd", r, 0, "caught", "", m, 0, <<>>,
                                     <<"appium-client-command-response-error">>))
          ELSE handlers' = Append(handlers, Handler("cmd", r, d, "awaitCall", "", m, 0,
                                     <<CallPlan(m)[1]>>, <<>>))
  /\ UNCHANGED <<sessionDrivers, drivers, closed, serverVars>>

\* a catch that also drops the session of the window when a call rejects
CmdSettlesDropsSession(i, out) ==
  /\ handlers[i].kind = "cmd"
  /\ handlers[i].pc = "awaitCall"
  /\ LET plan == CallPlan(handlers[i].method)
         n    == Len(handlers[i].calls)
     IN IF out = "err"
          THEN handlers' = Send([handlers EXCEPT ![i].pc = "caught"],
                                i, "appium-client-command-response-error")
          ELSE IF n < Len(plan)
            THEN handlers' = [handlers EXCEPT ![i].calls = Append(@, plan[n + 1])]
            ELSE handlers' = Send([handlers EXCEPT ![i].pc = "done"],
                                  i, "appium-client-command-response")
  /\ sessionDrivers' = IF out = "err" THEN RegDelete(sessionDrivers, handlers[i].r)
                                      ELSE sessionDrivers
  /\ UNCHANGED <<drivers, closed, serverVars>>

\* the call a command awaits settles: rejected, the catch sends the error;
\* resolved, the next call of the plan is made, and after the last one
\* appium-client-command-response {source, screenshot} is sent
CmdSettles(i, out) ==
  /\ handlers[i].kind = "cmd"
  /\ handlers[i].pc = "awaitCall"
  /\ LET plan == CallPlan(handlers[i].method)
         n    == Len(handlers[i].calls)
     IN IF out = "err"
          THEN handlers' = Send([handlers EXCEPT ![i].pc = "caught"],
                                i, "appium-client-command-response-error")
          ELSE IF n < Len(plan)
            THEN handlers' = [handlers EXCEPT ![i].calls = Append(@, plan[n + 1])]
            ELSE handlers' = Send([handlers EXCEPT ![i].pc = "done"],
                                  i, "appium-client-command-response")
  /\ UNCHANGED <<sessionDrivers, drivers, closed, serverVars>>

(* ----------------------- the embedded server -------------------------- *)

ServerHandler(kind, pc, s, sent) == [kind |-> kind, pc |-> pc, s |-> s, sent |-> sent]

\* win.webContents.send(ev), issued by server handler activation i
WinSend(hs, i, ev) == [hs EXCEPT ![i].sent = Append(@, ev)]

\* clearInterval(t): clearing null or a cleared interval does nothing
clearInterval(ts, t) == ts \ {t}

\* what the awaited server.close() of instance s can do: a server that is up
\* closes or fails to, one that is not up rejects
CloseOutcomes(s) == IF s \in running THEN {"ok", "err"} ELSE {"err"}

\* ipcMain.on('start-server') up to its await: install the log handler, set
\* the interval into logWatcher, set serverArgs and call appiumServer.  The
\* interval and the instance of activation i are both named i.
StartServer ==
  /\ Len(serverHandlers) < MaxServerRequests
  /\ LET i == Len(serverHandlers) + 1
     IN /\ timers' = timers \cup {i}
        /\ logWatcher' = i
        /\ serverArgs' = i
        /\ serverHandlers' = Append(serverHandlers, ServerHandler("start", "awaitStart", 0, <<>>))
  /\ UNCHANGED <<server, running, batchedLogs, logged, delivered, sessionVars>>

\* appiumServer settles.  Resolved: server holds the new instance and
\* appium-start-ok is sent.  Rejected: appium-start-error is sent and
\* server.close() is tried on whatever server holds: on null the TypeError is
\* swallowed and logWatcher is cleared at once, else the close is awaited
StartSettles(i, out) ==
  /\ serverHandlers[i].kind = "start"
  /\ serverHandlers[i].pc = "awaitStart"
  /\ IF out = "ok"
       THEN /\ server' = i
            /\ running' = running \cup {i}
            /\ serverHandlers' = WinSend([serverHandlers EXCEPT ![i].pc = "done"],
                                         i, "appium-start-ok")
            /\ UNCHANGED timers
       ELSE /\ UNCHANGED <<server, running>>
            /\ IF server = 0
                 THEN /\ timers' = clearInterval(timers, logWatcher)
                      /\ serverHandlers' = WinSend([serverHandlers EXCEPT ![i].pc = "failed"],
                                                   i, "appium-start-error")
                 ELSE /\ UNCHANGED timers
                      /\ serverHandlers' =
                           WinSend([serverHandlers EXCEPT ![i].pc = "awaitClose", ![i].s = server],
                                   i, "appium-start-error")
  /\ UNCHANGED <<serverArgs, logWatcher, batchedLogs, logged, delivered, sessionVars>>

\* ipcMain.on('stop-server') up to its await: server.close() on null throws
\* a TypeError, so appium-stop-error is sent and logWatcher cleared at once
StopServer ==
  /\ Len(serverHandlers) < MaxServerRequests
  /\ IF server = 0
       THEN /\ serverHandlers' = Append(serverHandlers,
                 ServerHandler("stop", "done", 0, <<"appium-stop-error">>))
            /\ timers' = clearInterval(timers, logWatcher)
       ELSE /\ serverHandlers' = Append(serverHandlers,
                 ServerHandler("stop", "awaitClose", server, <<>>))
            /\ UNCHANGED timers
  /\ UNCHANGED <<server, running, serverArgs, logWatcher, batchedLogs, logged,
                 delivered, sessionVars>>

\* an awaited server.close() settles.  In stop-server appium-stop-ok or
\* appium-stop-error is sent; in the catch of start-server the outcome is
\* swallowed.  Both then clear the interval logWatcher holds by now.
CloseSettles(i, out) ==
  /\ serverHandlers[i].pc = "awaitClose"
  /\ out \in CloseOutcomes(serverHandlers[i].s)
  /\ running' = IF out = "ok" THEN running \ {serverHandlers[i].s} ELSE running
  /\ timers' = clearInterval(timers, logWatcher)
  /\ serverHandlers' =
       IF serverHandlers[i].kind = "stop"
         THEN WinSend([serverHandlers EXCEPT ![i].pc = "done"], i,
                      IF out = "ok" THEN "appium-stop-ok" ELSE "appium-stop-error")
         ELSE [serverHandlers EXCEPT ![i].pc = "failed"]
  /\ UNCHANGED <<server, serverArgs, logWatcher, batchedLogs, logged, delivered,
                 sessionVars>>

(* ---------------------------- the log lines --------------------------- *)

\* a server instance that is starting or up
ServerAlive ==
  \/ running # {}
  \/ \E i \in DOMAIN serverHandlers : serverHandlers[i].pc = "awaitStart"

\* args.logHandler: batchedLogs.push({level, msg}); the records are numbered
\* in the order they are logged
LogHandler ==
  /\ ServerAlive
  /\ Len(logged) < MaxLogs
  /\ batchedLogs' = Append(batchedLogs, Len(logged) + 1)
  /\ logged' = Append(logged, Len(logged) + 1)
  /\ UNCHANGED <<server, running, serverArgs, logWatcher, timers, delivered,
                 serverHandlers, sessionVars>>

\* an interval body that sends the buffer and does not reset it
FlushKeepsBuffer(buf, out) ==
  IF Len(buf) # 0 THEN [buf |-> buf, out |-> Append(out, buf)]
                  ELSE [buf |-> buf, out |-> out]

\* the body of the interval: buf is batchedLogs and out the batches sent;
\* a non-empty buffer is sent as one appium-log-line and reset
Flush(buf, out) ==
  IF Len(buf) # 0 THEN [buf |-> <<>>, out |-> Append(out, buf)]
                  ELSE [buf |-> buf, out |-> out]

\* an interval that is set fires
Tick(t) ==
  /\ t \in timers
  /\ batchedLogs' = Flush(batchedLogs, delivered).buf
  /\ delivered' = Flush(batchedLogs, delivered).out
  /\ UNCHANGED <<server, running, serverArgs, logWatcher, timers, logged,
                 serverHandlers, sessionVars>>

(* ------------------------- the specifications ------------------------- *)

SessionNext ==
  \/ \E r \in Req : CreateSession(r)
  \/ \E i \in DOMAIN handlers, out \in Outcomes : InitSettles(i, out)
  \/ \E i \in DOMAIN handlers, out \in Outcomes : QuitSettles(i, out)
  \/ \E r \in Req : WindowClosed(r)
  \/ \E r \in Req : ExecQuit(r)
  \/ \E r \in Req, m \in Methods : ExecCmd(r, m)
  \/ \E i \in DOMAIN handlers, out \in Outcomes : CmdSettles(i, out)

ServerNext ==
  \/ StartServer
  \/ \E i \in DOMAIN serverHandlers, out \in Outcomes : StartSettles(i, out)
  \/ StopServer
  \/ \E i \in DOMAIN serverHandlers, out \in Outcomes : CloseSettles(i, out)
  \/ LogHandler
  \/ \E t \in timers : Tick(t)

\* the session windows: requests, and the settling of what they await
Spec == Init /\ [][SessionNext]_vars

\* the main window: start-server, stop-server and the log lines
SpecServer == Init /\ [][ServerNext]_vars

\* two session windows that create sessions and send commands other than
\* quit; the quits of replaced and failed sessions stay pending
Windows == {1, 2}

WindowsNext ==
  \/ \E r \in Windows : CreateSession(r)
  \/ \E i \in DOMAIN handlers, out \in Outcomes : InitSettles(i, out)
  \/ \E r \in Windows, m \in Methods : ExecCmd(r, m)
  \/ \E i \in DOMAIN handlers, out \in Outcomes : CmdSettles(i, out)

SpecWindows == Init /\ [][WindowsNext]_vars

(* ------------------------------ claims -------------------------------- *)

Creates == {i \in DOMAIN handlers : handlers[i].kind = "create"}
Kills   == {i \in DOMAIN handlers : handlers[i].kind = "kill"}
Cmds    == {i \in DOMAIN handlers : handlers[i].kind = "cmd"}

\* no activation of killSession for window r still awaits its quit
KillsSettled(r) ==
  \A k \in Kills : handlers[k].r = r => handlers[k].pc # "awaitQuit"

\* C1: a driver registered by a createSession that replaced an existing
\* entry stays the registry entry of its window for as long as quit has not
\* been invoked on it.
C1_NewDriverStaysRegistered ==
  \A c \in Creates :
    (handlers[c].old # 0 /\ drivers[handlers[c].a].quitCalls = 0)
      => Lookup(sessionDrivers, handlers[c].r) = handlers[c].a

\* C2: the registry holds at most one entry per window, in every reachable
\* state.
C2_OneEntryPerRequester ==
  \A r \in Req : Cardinality({e \in sessionDrivers : e[1] = r}) <= 1

\* a createSession has replaced an entry whose quit is still awaited, and
\* the window has its one new entry
C2_Witness ==
  \E c \in Creates, k \in Kills :
    /\ handlers[c].old # 0
    /\ handlers[k].origin = "replace" /\ handlers[k].a = handlers[c].old
    /\ handlers[k].pc = "awaitQuit"
    /\ {e \in sessionDrivers : e[1] = handlers[c].r} = {<<handlers[c].r, handlers[c].a>>}

\* C3: when killSession (window closed, or the quit command) starts while
\* the init of the registered driver is pending, then once the init and
\* every quit awaited for the window have settled and no later createSession
\* has registered another driver, the registry has no entry for the window.
C3_NoDanglingEntry ==
  \A k \in Kills :
    ( /\ handlers[k].origin \in {"closed", "exec"}
      /\ handlers[k].a # 0
      /\ handlers[k].init = "pending"
      /\ drivers[handlers[k].a].init # "pending"
      /\ KillsSettled(handlers[k].r)
      /\ \A b \in DOMAIN drivers : drivers[b].owner = handlers[k].r => b <= handlers[k].a )
    => Lookup(sessionDrivers, handlers[k].r) = 0

\* C4: a settled quit command that found an entry has sent exactly one
\* appium-session-done (and nothing else) and its driver is no longer the
\* entry of the window; one that found no entry has sent nothing.
C4_QuitCommand ==
  \A k \in Kills :
    (handlers[k].origin = "exec" /\ handlers[k].pc # "awaitQuit")
      => IF handlers[k].a # 0
           THEN /\ handlers[k].sent = <<"appium-session-done">>
                /\ Lookup(sessionDrivers, handlers[k].r) # handlers[k].a
           ELSE handlers[k].sent = <<>>

\* the activation the step has just started, when it is a command other
\* than quit of a window without an entry
NoSessionCmdStarts ==
  /\ Len(handlers') = Len(handlers) + 1
  /\ handlers'[Len(handlers')].kind = "cmd"
  /\ Lookup(sessionDrivers, handlers'[Len(handlers')].r) = 0

\* C5: a command other than quit for a window without a registry entry
\* sends exactly one appium-client-command-response-error and no response,
\* invokes no driver method, and leaves the registry, the drivers and the
\* other activations as they were.
C5_NoActiveSession ==
  /\ [][NoSessionCmdStarts =>
          /\ handlers'[Len(handlers')].sent = <<"appium-client-command-response-error">>
          /\ handlers'[Len(handlers')].calls = <<>>
          /\ handlers'[Len(handlers')].pc = "caught"
          /\ sessionDrivers' = sessionDrivers
          /\ drivers' = drivers
          /\ SubSeq(handlers', 1, Len(handlers)) = handlers]_vars
  /\ [](\A c \in Cmds : handlers[c].a = 0 =>
          /\ handlers[c].sent = <<"appium-client-command-response-error">>
          /\ handlers[c].calls = <<>>)

\* both a source and a click command have been answered for a window
\* without an entry
C5_Witness ==
  \E c, d \in Cmds :
    /\ handlers[c].a = 0 /\ handlers[c].method = "source" /\ handlers[c].pc = "caught"
    /\ handlers[d].a = 0 /\ handlers[d].method = "click" /\ handlers[d].pc = "caught"
    /\ sessionDrivers = {}

IsPrefix(s, t) == Len(s) <= Len(t) /\ SubSeq(t, 1, Len(s)) = s

\* the driver calls of a whole command: source and takeScreenshot, after the
\* named method when that is not source
ExpectedCalls(m) ==
  IF m = "source" THEN <<"source", "takeScreenshot">>
                  ELSE <<m>> \o <<"source", "takeScreenshot">>

\* C6 as stated: every settled command other than quit of a window with a
\* registered driver has made exactly the calls source, takeScreenshot (after
\* the named method, when it is not source) and sent one response with both.
C6_AsStated ==
  \A c \in Cmds :
    (handlers[c].a # 0 /\ handlers[c].pc # "awaitCall")
      => /\ handlers[c].calls = ExpectedCalls(handlers[c].method)
         /\ handlers[c].sent = <<"appium-client-command-response">>

\* C6, amended: the calls a command has made on its registered driver are
\* always a beginning of: the named method once unless it is source, then
\* source once, then takeScreenshot once.  When none of them rejects, all of
\* them are made and one appium-client-command-response is sent; when one
\* rejects, no further call is made and one
\* appium-client-command-response-error is sent instead.
C6_CallOrder ==
  \A c \in Cmds :
    handlers[c].a # 0 =>
      /\ handlers[c].calls # <<>>
      /\ IsPrefix(handlers[c].calls, ExpectedCalls(handlers[c].method))
      /\ handlers[c].pc = "awaitCall" => handlers[c].sent = <<>>
      /\ handlers[c].pc = "done" =>
           /\ handlers[c].calls = ExpectedCalls(handlers[c].method)
           /\ handlers[c].sent = <<"appium-client-command-response">>
      /\ handlers[c].pc = "caught" =>
           handlers[c].sent = <<"appium-client-command-response-error">>

\* a source command and a click command of a window with a driver have both
\* been answered with a response
C6_Witness ==
  \E c, d \in Cmds :
    /\ handlers[c].a # 0 /\ handlers[c].method = "source" /\ handlers[c].pc = "done"
    /\ handlers[c].calls = <<"source", "takeScreenshot">>
    /\ handlers[d].a # 0 /\ handlers[d].method = "click" /\ handlers[d].pc = "done"
    /\ handlers[d].calls = <<"click", "source", "takeScreenshot">>

\* C10: once a createSession whose init failed has settled and every quit
\* awaited for the window has settled, the driver it registered is not the
\* registry entry of the window.
C10_FailedInitNotRetained ==
  \A c \in Creates :
    (handlers[c].pc = "failed" /\ KillsSettled(handlers[c].r))
      => Lookup(sessionDrivers, handlers[c].r) # handlers[c].a

RECURSIVE Flatten(_)
\* the batches of a sequence of batches, joined in order
Flatten(bs) == IF bs = <<>> THEN <<>> ELSE Head(bs) \o Flatten(Tail(bs))

\* C7: every delivered appium-log-line batch is non-empty, and the delivered
\* batches, joined in order and followed by the pending buffer, are exactly
\* the records logged so far in the order they were logged: each batch holds
\* the records logged since the batch before it and no record is in two.
C7_LogBatches ==
  /\ \A b \in DOMAIN delivered : delivered[b] # <<>>
  /\ Flatten(delivered) \o batchedLogs = logged

\* records 1 and 2 were logged before one tick and record 3 before the next
C7_Witness == delivered = << <<1, 2>>, <<3>> >> /\ batchedLogs = <<>>

\* the step settles server handler activation i (which it may also have
\* started), and leaves no other one in flight
SettlesLast(i) ==
  /\ i \in DOMAIN serverHandlers => serverHandlers[i].pc \notin {"done", "failed"}
  /\ \A j \in DOMAIN serverHandlers' : serverHandlers'[j].pc \in {"done", "failed"}

\* C8: when a start-server handler that sent appium-start-error settles,
\* with no other start or stop in flight, no server instance is up and no
\* interval is set.
C8_FailedStartIsClean ==
  [][\A i \in DOMAIN serverHandlers' :
       (SettlesLast(i) /\ serverHandlers'[i].pc = "failed")
         => (running' = {} /\ timers' = {})]_vars

\* C9: when a stop-server handler settles, with no other start or stop in
\* flight, it has sent exactly one event, appium-stop-ok or
\* appium-stop-error, and no interval is set.
C9_StopClearsTimer ==
  [][\A i \in DOMAIN serverHandlers' :
       (SettlesLast(i) /\ serverHandlers'[i].kind = "stop")
         => /\ serverHandlers'[i].sent \in {<<"appium-stop-ok">>, <<"appium-stop-error">>}
            /\ timers' = {}]_vars

\* C11: at most one interval is set in every reachable state.
C11_OneTimer == Cardinality(timers) <= 1

\* the step in which the call awaited by command c of a window with a
\* driver rejects
CmdFails(c) ==
  /\ handlers[c].kind = "cmd"
  /\ handlers[c].a # 0
  /\ handlers[c].pc = "awaitCall"
  /\ handlers'[c].pc = "caught"

\* C12: when the method or the refresh of a command other than quit rejects,
\* the command sends exactly one appium-client-command-response-error and no
\* response, and the step changes nothing else: the registry (the entry of
\* the window and of every other window), the drivers (none is quit) and
\* every other activation with the events it sent stay as they were.
C12_FailedCommandFrame ==
  /\ [][\A c \in DOMAIN handlers :
          CmdFails(c) =>
            /\ handlers'[c].sent = <<"appium-client-command-response-error">>
            /\ handlers'[c].calls = handlers[c].calls
            /\ sessionDrivers' = sessionDrivers
            /\ drivers' = drivers
            /\ DOMAIN handlers' = DOMAIN handlers
            /\ \A j \in DOMAIN handlers : j # c => handlers'[j] = handlers[j]]_vars
  /\ [](\A c \in Cmds : handlers[c].pc = "caught" =>
          handlers[c].sent = <<"appium-client-command-response-error">>)

\* a command of window 1 has failed; its driver is still the entry of
\* window 1 and was never quit, and window 2 has its entry too
C12_Witness ==
  \E c \in Cmds :
    /\ handlers[c].r = 1 /\ handlers[c].a # 0 /\ handlers[c].pc = "caught"
    /\ Lookup(sessionDrivers, 1) = handlers[c].a
    /\ drivers[handlers[c].a].quitCalls = 0
    /\ Lookup(sessionDrivers, 2) # 0

\* C13: no logged record is lost: a record that is still in the buffer has an
\* interval set that will deliver it.
C13_NoRecordStranded == batchedLogs # <<>> => timers # {}

\* C14: when a create registers a new driver for a window whose entry held
\* an old driver, the quit of the old driver has completed by then: an
\* activation of killSession for the old driver is done and has sent
\* appium-session-done (the entry is deleted in the same step), all of it
\* before the new driver is registered and appium-new-session-successful is
\* sent.
C14_OldQuitBeforeNew ==
  [][\A a \in DOMAIN drivers' \ DOMAIN drivers :
       LET old == Lookup(sessionDrivers, drivers'[a].owner)
       IN old # 0 =>
            \E k \in DOMAIN handlers' :
              /\ handlers'[k].kind = "kill"
              /\ handlers'[k].a = old
              /\ handlers'[k].pc = "done"
              /\ handlers'[k].sent = <<"appium-session-done">>]_vars

\* C15: no failure escapes: no activation ends with a rejection that none
\* of its callers handles.
C15_NoUnhandledRejection ==
  \A i \in DOMAIN handlers : handlers[i].pc # "rejected"

\* C16: at most one server instance is up in every reachable state.
C16_OneServer == Cardinality(running) <= 1

\* C17: whenever a server instance is up (its start sent appium-start-ok and
\* no close of it has succeeded since), an interval is set.
C17_RunningHasTimer == running # {} => timers # {}

\* C18: no driver is leaked: every driver built for a window and on which
\* quit was never invoked is the entry of that window.
C18_NoLeakedDriver ==
  \A a \in DOMAIN drivers :
    drivers[a].quitCalls = 0 => Lookup(sessionDrivers, drivers[a].owner) = a

\* the appium-session-done events sent to window r, each named by the
\* activation that sent it and its place among the events of the activation
SessionDone(r) ==
  {e \in UNION {{<<i, j>> : j \in DOMAIN handlers[i].sent} : i \in DOMAIN handlers} :
     /\ handlers[e[1]].r = r
     /\ handlers[e[1]].sent[e[2]] = "appium-session-done"}

\* the drivers registered for window r so far
Registered(r) == {a \in DOMAIN drivers : drivers[a].owner = r}

\* C19: for every window the appium-session-done events sent to it are at
\* most as many as the drivers registered for it.
C19_DoneAtMostOnce ==
  \A r \in Req : Cardinality(SessionDone(r)) <= Cardinality(Registered(r))

\* C20: appium-new-session-ready is sent for a create only while the entry
\* of its window holds the driver that create built.
C20_ReadyOnlyIfRegistered ==
  [][\A c \in DOMAIN handlers :
       (/\ handlers[c].kind = "create"
        /\ handlers[c].pc = "awaitInit"
        /\ handlers'[c].pc = "done")
       => Lookup(sessionDrivers, handlers[c].r) = handlers[c].a]_vars

=============================================================================
